---- MODULE Spec2Model ----
(***************************************************************************)
(* Power Distributor: the Overload Acceptance (OA) state machine and the   *)
(* proportional distribution of custom_components/power_distributor/      *)
(* sensor.py, driven by the controller callback async_run_controller.      *)
(*                                                                         *)
(* Python floats are modelled as exact rationals <<n, d>> in lowest terms  *)
(* with d > 0.  Times are wall-clock readings counted in clock ticks of    *)
(* 1/MinuteTicks minute.  Python's None is the empty tuple <<>>, a present *)
(* value v is <<v>> (ramp_start) or the rational itself (ramp_dur).        *)
(***************************************************************************)
EXTENDS Integers, Sequences, FiniteSets, TLC

\* ------------------------------------------------------------------------
\* Exact arithmetic standing for the float arithmetic of sensor.py
\* ------------------------------------------------------------------------
Abs(n) == IF n < 0 THEN -n ELSE n

RECURSIVE Gcd(_, _)
Gcd(a, b) == IF b = 0 THEN a ELSE Gcd(b, a % b)

\* the rational n/d (d # 0) in lowest terms with a positive denominator
Norm(n, d) ==
    LET g == Gcd(Abs(n), Abs(d))
        s == IF d < 0 THEN -1 ELSE 1
    IN  <<(s * n) \div g, (s * d) \div g>>

R(n) == <<n, 1>>
Frac(n, d) == Norm(n, d)

RAdd(a, b) == Norm(a[1] * b[2] + b[1] * a[2], a[2] * b[2])
RSub(a, b) == Norm(a[1] * b[2] - b[1] * a[2], a[2] * b[2])
RMul(a, b) == Norm(a[1] * b[1], a[2] * b[2])
\* a / b for b # 0 (every call site guards or reports the zero divisor)
RDiv(a, b) == Norm(a[1] * b[2], a[2] * b[1])
RLt(a, b) == a[1] * b[2] < b[1] * a[2]
RLe(a, b) == a[1] * b[2] <= b[1] * a[2]
RMin(a, b) == IF RLe(a, b) THEN a ELSE b
RMax(a, b) == IF RLe(b, a) THEN a ELSE b
Zero == R(0)
One == R(1)
Hundred == R(100)

\* round(x, 2): nearest multiple of 1/100, ties to the even multiple
Round2(q) ==
    LET n == q[1] * 100
        d == q[2]
        fl == n \div d
        rem2 == 2 * (n - fl * d)
        k == IF rem2 < d THEN fl
             ELSE IF rem2 > d THEN fl + 1
             ELSE IF fl % 2 = 0 THEN fl ELSE fl + 1
    IN  Norm(k, 100)

RECURSIVE RSum(_)
RSum(s) == IF s = <<>> THEN Zero ELSE RAdd(s[1], RSum(Tail(s)))

\* Resolution of the wall clock: readings of datetime.now() are counted in
\* ticks of half a minute (the controller is scheduled every 5 seconds, so
\* sub-minute elapsed times are the normal case).
MinuteTicks == 2

\* timedelta.total_seconds() / 60.0 of a difference of two readings
Minutes(ticks) == Frac(ticks, MinuteTicks)

\* ------------------------------------------------------------------------
\* const.py
\* ------------------------------------------------------------------------
NUM_CONSUMERS == 4
DEFAULT_MAX_COMBINED_LOAD == 16
DEFAULT_MAX_INDIVIDUAL_LOAD == 4
DEFAULT_DELAY_5_PERCENT == 10
DEFAULT_DELAY_20_PERCENT == 2
DEFAULT_RAMP_5_PERCENT == 10
DEFAULT_RAMP_20_PERCENT == 5
DEFAULT_RECOVERY_TIME_FAST == 20
DEFAULT_RECOVERY_TIME_SLOW == 60

Units == 1..NUM_CONSUMERS

\* the config entry data produced by the config flow with its default values
DefaultConfig ==
    [max_combined_load |-> R(DEFAULT_MAX_COMBINED_LOAD),
     max_individual_load |-> R(DEFAULT_MAX_INDIVIDUAL_LOAD),
     delay_5 |-> R(DEFAULT_DELAY_5_PERCENT),
     delay_20 |-> R(DEFAULT_DELAY_20_PERCENT),
     ramp_5 |-> R(DEFAULT_RAMP_5_PERCENT),
     ramp_20 |-> R(DEFAULT_RAMP_20_PERCENT),
     recover_fast |-> R(DEFAULT_RECOVERY_TIME_FAST),
     recover_slow |-> R(DEFAULT_RECOVERY_TIME_SLOW)]

\* ------------------------------------------------------------------------
\* Helpers of sensor.py
\* ------------------------------------------------------------------------
None == <<>>

\* get_float_state that reads an unavailable or unknown entity as 0.0
get_float_state_zero(state) ==
    IF state = None THEN None
    ELSE IF state[1] = "float" THEN <<state[2]>>
    ELSE IF state[1] = "text" THEN None
    ELSE <<Zero>>

\* A Home Assistant state object is <<>> (no such entity), <<"unavailable">>,
\* <<"unknown">>, <<"text">> (a string float() rejects) or <<"float", q>>
\* (a string float() parses to q).
get_float_state(state) ==
    IF state = None \/ state = <<"unavailable">> \/ state = <<"unknown">>
    THEN None
    ELSE IF state[1] = "float" THEN <<state[2]>>
    ELSE None

_interpolate_value(x, x1, y1, x2, y2) ==
    IF x1 = x2 THEN y1
    ELSE IF RLe(x, x1) THEN y1
    ELSE IF RLe(x2, x) THEN y2
    ELSE RAdd(y1, RDiv(RMul(RSub(x, x1), RSub(y2, y1)), RSub(x2, x1)))

\* _calculate_oa_timing that interpolates the delay between the ramp anchors
_calculate_oa_timing_ramp_anchors(cfg, overload_ratio) ==
    LET ratio == RMin(Frac(120, 100), overload_ratio)
        T_ramp == _interpolate_value(ratio, Frac(105, 100), cfg.ramp_5,
                                     Frac(120, 100), cfg.ramp_20)
    IN  [T_delay |-> T_ramp, T_ramp |-> T_ramp]

\* (T_delay, T_ramp) in minutes
_calculate_oa_timing(cfg, overload_ratio) ==
    LET ratio == RMin(Frac(120, 100), overload_ratio)
    IN  [T_delay |-> _interpolate_value(ratio, Frac(105, 100), cfg.delay_5,
                                        Frac(120, 100), cfg.delay_20),
         T_ramp |-> _interpolate_value(ratio, Frac(105, 100), cfg.ramp_5,
                                       Frac(120, 100), cfg.ramp_20)]

_calculate_recovery_time(cfg, load_ratio) ==
    _interpolate_value(load_ratio, Frac(80, 100), cfg.recover_fast,
                       One, cfg.recover_slow)

\* ------------------------------------------------------------------------
\* PowerManagement
\* ------------------------------------------------------------------------
\* the OA record of one entity as PowerManagement.__init__ creates it
InitialOAState ==
    [oa |-> Hundred, ramp_start |-> None, init_factor |-> One, ramp_dur |-> None]

\* RampingPhase that starts the ramp afresh on every tick
RampingPhase_restarts(st, overload_ratio, T_ramp, now) ==
    [state |-> [st EXCEPT !.ramp_start = <<now>>, !.ramp_dur = T_ramp,
                          !.init_factor = overload_ratio],
     factor |-> <<overload_ratio>>, raised |-> FALSE, phase |-> "RAMPING"]

\* RampingPhase that interpolates the factor down to 0.0 instead of 1.0
RampingPhase_ramps_to_zero(st, overload_ratio, T_ramp, now) ==
    LET st1 == IF st.ramp_start = None
               THEN [st EXCEPT !.ramp_start = <<now>>,
                               !.ramp_dur = T_ramp,
                               !.init_factor = overload_ratio]
               ELSE st
    IN  IF st1.ramp_dur = Zero
        THEN [state |-> st1, factor |-> None, raised |-> TRUE,
              phase |-> "RAMPING"]
        ELSE
          LET ramp_progress ==
                  RMin(One, RDiv(Minutes(now - st1.ramp_start[1]), st1.ramp_dur))
          IN  IF RLe(One, ramp_progress)
              THEN [state |-> [st1 EXCEPT !.oa = Zero],
                    factor |-> <<One>>, raised |-> FALSE, phase |-> "LIMITED"]
              ELSE [state |-> st1,
                    factor |-> <<RSub(st1.init_factor,
                                      RMul(st1.init_factor, ramp_progress))>>,
                    raised |-> FALSE, phase |-> "RAMPING"]

\* RampingPhase that forgets the ramp once it has completed
RampingPhase_clears_when_done(st, overload_ratio, T_ramp, now) ==
    LET st1 == IF st.ramp_start = None
               THEN [st EXCEPT !.ramp_start = <<now>>,
                               !.ramp_dur = T_ramp,
                               !.init_factor = overload_ratio]
               ELSE st
    IN  IF st1.ramp_dur = Zero
        THEN [state |-> st1, factor |-> None, raised |-> TRUE,
              phase |-> "RAMPING"]
        ELSE
          LET ramp_progress ==
                  RMin(One, RDiv(Minutes(now - st1.ramp_start[1]), st1.ramp_dur))
          IN  IF RLe(One, ramp_progress)
              THEN [state |-> [st1 EXCEPT !.oa = Zero, !.ramp_start = None],
                    factor |-> <<One>>, raised |-> FALSE, phase |-> "LIMITED"]
              ELSE [state |-> st1,
                    factor |-> <<RSub(st1.init_factor,
                                      RMul(RSub(st1.init_factor, One), ramp_progress))>>,
                    raised |-> FALSE, phase |-> "RAMPING"]

\* The limiting branch of _update_oa_state (oa exhausted while overloaded).
\* st already holds the decayed oa.  raised: the division by ramp_dur hit
\* a zero divisor (ZeroDivisionError) after the ramp fields were stored.
\* phase names the branch that handled the entity, in the words of the
\* code's comments: RECOVERING (line 123), ACCEPTING (line 144), RAMPING
\* (line 149) and LIMITED (steady limiting, line 165).
RampingPhase(st, overload_ratio, T_ramp, now) ==
    LET st1 == IF st.ramp_start = None
               THEN [st EXCEPT !.ramp_start = <<now>>,
                               !.ramp_dur = T_ramp,
                               !.init_factor = overload_ratio]
               ELSE st
    IN  IF st1.ramp_dur = Zero
        THEN [state |-> st1, factor |-> None, raised |-> TRUE,
              phase |-> "RAMPING"]
        ELSE
          LET time_elapsed_min == Minutes(now - st1.ramp_start[1])
              ramp_progress == RMin(One, RDiv(time_elapsed_min, st1.ramp_dur))
              current_limit_factor ==
                  RSub(st1.init_factor,
                       RMul(RSub(st1.init_factor, One), ramp_progress))
          IN  IF RLe(One, ramp_progress)
              THEN [state |-> [st1 EXCEPT !.oa = Zero],
                    factor |-> <<One>>, raised |-> FALSE, phase |-> "LIMITED"]
              ELSE [state |-> st1,
                    factor |-> <<current_limit_factor>>, raised |-> FALSE,
                    phase |-> "RAMPING"]

\* RecoveryPhase that leaves a ramp in progress as it is
RecoveryPhase_keeps_ramp(cfg, current_load, reference_limit, st, time_delta_min) ==
    LET T_recover == _calculate_recovery_time(cfg,
                         RMax(Zero, RMin(One, RDiv(current_load, reference_limit))))
        rate_rise_per_min == IF RLt(Zero, T_recover)
                             THEN RDiv(Hundred, T_recover) ELSE Hundred
    IN  [state |-> [st EXCEPT
                      !.oa = RMin(Hundred,
                                  RAdd(st.oa, RMul(rate_rise_per_min, time_delta_min)))],
         factor |-> <<RMax(One, RDiv(current_load, reference_limit))>>,
         raised |-> FALSE, phase |-> "RECOVERING"]

\* RecoveryPhase that returns the load ratio itself as the limit factor
RecoveryPhase_raw_ratio(cfg, current_load, reference_limit, st, time_delta_min) ==
    LET T_recover == _calculate_recovery_time(cfg,
                         RMax(Zero, RMin(One, RDiv(current_load, reference_limit))))
        rate_rise_per_min == IF RLt(Zero, T_recover)
                             THEN RDiv(Hundred, T_recover) ELSE Hundred
    IN  [state |-> [st EXCEPT
                      !.ramp_start = None,
                      !.oa = RMin(Hundred,
                                  RAdd(st.oa, RMul(rate_rise_per_min, time_delta_min)))],
         factor |-> <<RDiv(current_load, reference_limit)>>,
         raised |-> FALSE, phase |-> "RECOVERING"]

\* the recovery branch of _update_oa_state (current_load <= reference_limit)
RecoveryPhase(cfg, current_load, reference_limit, st, time_delta_min) ==
    LET overload_ratio == RDiv(current_load, reference_limit)
        load_ratio == RMax(Zero, RMin(One, RDiv(current_load, reference_limit)))
        T_recover == _calculate_recovery_time(cfg, load_ratio)
        rate_rise_per_min == IF RLt(Zero, T_recover)
                             THEN RDiv(Hundred, T_recover) ELSE Hundred
    IN  [state |-> [st EXCEPT
                      !.ramp_start = None,
                      !.oa = RMin(Hundred,
                                  RAdd(st.oa, RMul(rate_rise_per_min, time_delta_min)))],
         factor |-> <<RMax(One, overload_ratio)>>,
         raised |-> FALSE, phase |-> "RECOVERING"]

\* ConsumptionPhase that never leaves the accepted-overload phase
ConsumptionPhase_never_limits(cfg, current_load, reference_limit, st, time_delta_min, now) ==
    LET timing == _calculate_oa_timing(cfg, RDiv(current_load, reference_limit))
        rate_consume_per_min == IF RLt(Zero, timing.T_delay)
                                THEN RDiv(Hundred, timing.T_delay) ELSE Hundred
    IN  [state |-> [st EXCEPT
                      !.oa = RMax(Zero,
                                  RSub(st.oa, RMul(rate_consume_per_min, time_delta_min))),
                      !.ramp_start = None],
         factor |-> <<RDiv(current_load, reference_limit)>>, raised |-> FALSE,
         phase |-> "ACCEPTING"]

\* the consumption branch of _update_oa_state (current_load > reference_limit)
ConsumptionPhase(cfg, current_load, reference_limit, st, time_delta_min, now) ==
    LET overload_ratio == RDiv(current_load, reference_limit)
        timing == _calculate_oa_timing(cfg, overload_ratio)
        rate_consume_per_min == IF RLt(Zero, timing.T_delay)
                                THEN RDiv(Hundred, timing.T_delay) ELSE Hundred
        st1 == [st EXCEPT !.oa = RMax(Zero,
                    RSub(st.oa, RMul(rate_consume_per_min, time_delta_min)))]
    IN  IF RLt(Zero, st1.oa)
        THEN [state |-> [st1 EXCEPT !.ramp_start = None],
              factor |-> <<overload_ratio>>, raised |-> FALSE,
              phase |-> "ACCEPTING"]
        ELSE RampingPhase(st1, overload_ratio, timing.T_ramp, now)

\* Generic OA state machine update: the new OA record, the returned limit
\* factor (<<f>>, or None when the call raised) and whether it raised.
\* now is the datetime.now() read at its top.
_update_oa_state(cfg, current_load, reference_limit, st, time_delta_min, now) ==
    IF RLe(reference_limit, Zero)
    THEN [state |-> st, factor |-> <<One>>, raised |-> FALSE,
          phase |-> "UNRESTRICTED"]
    ELSE IF RLe(current_load, reference_limit)
    THEN RecoveryPhase(cfg, current_load, reference_limit, st, time_delta_min)
    ELSE ConsumptionPhase(cfg, current_load, reference_limit, st, time_delta_min, now)

\* final_limits_of with the shortage split equally instead of by demand
final_limits_equal_split(X_managed_capacity, pre_capped_requests) ==
    IF RLe(RSum(pre_capped_requests), X_managed_capacity)
    THEN pre_capped_requests
    ELSE [i \in Units |-> RDiv(X_managed_capacity, R(NUM_CONSUMERS))]

\* final_limits_of with the scaling applied whether or not capacity is short
final_limits_always_scaled(X_managed_capacity, pre_capped_requests) ==
    IF RLt(Zero, RSum(pre_capped_requests))
    THEN [i \in Units |->
            RMul(pre_capped_requests[i],
                 RDiv(X_managed_capacity, RSum(pre_capped_requests)))]
    ELSE [i \in Units |-> Zero]

\* proportional distribution (step 3 of run_distribution)
final_limits_of(X_managed_capacity, pre_capped_requests) ==
    LET L_units_pre_capped_total == RSum(pre_capped_requests)
    IN  IF RLe(L_units_pre_capped_total, X_managed_capacity)
        THEN pre_capped_requests
        ELSE IF RLt(Zero, L_units_pre_capped_total)
        THEN LET scaling_factor == RDiv(X_managed_capacity, L_units_pre_capped_total)
             IN  [i \in Units |-> RMul(pre_capped_requests[i], scaling_factor)]
        ELSE [i \in Units |-> Zero]

\* the limit the combined OA logic imposes (lines 199-205)
current_combined_limit_of(cfg, L_combined_actual, combined_limit_factor) ==
    IF RLt(One, combined_limit_factor)
    THEN L_combined_actual
    ELSE RMul(cfg.max_combined_load, combined_limit_factor)

\* pre_capped_request_of that hands on the OA cap whatever the unit requests
pre_capped_request_of_cap_only(cfg, requested_load, individual_limit_factor) ==
    RMul(cfg.max_individual_load, individual_limit_factor)

\* the request a unit hands to the proportional splitter (lines 225-229)
pre_capped_request_of(cfg, requested_load, individual_limit_factor) ==
    RMin(requested_load, RMul(cfg.max_individual_load, individual_limit_factor))

\* One call of PowerManagement.run_distribution on the engine state
\* (combined, consumers, last) at wall-clock reading now.  The result names
\* the new engine state, whether the call raised, the returned dict
\* (results), the locals the distribution is computed from and the branch
\* of _update_oa_state that handled each entity (phases).  A raise
\* keeps what was stored before it: _last_update_time always, the combined
\* fields only if the combined update returned, and the unit records up to
\* and including the one whose update raised (they are mutated in place).
\* The datetime.now() that each _update_oa_state call reads for itself is
\* taken to be the reading of line 174 (the calls are microseconds apart,
\* the clock of the model counts minutes).
run_distribution(cfg, combined, consumers, last, L_combined_actual, L_units_actual, now) ==
    LET time_delta_min == Minutes(now - last)
        L_units_total == RSum(L_units_actual)
        L_unmanaged_actual == RMax(Zero, RSub(L_combined_actual, L_units_total))
        cu == _update_oa_state(cfg, L_combined_actual, cfg.max_combined_load,
                               combined, time_delta_min, now)
        uu == [i \in Units |->
                 _update_oa_state(cfg, L_units_actual[i], cfg.max_individual_load,
                                  consumers[i], time_delta_min, now)]
        raisers == {i \in Units : uu[i].raised}
        first_raiser == IF raisers = {} THEN NUM_CONSUMERS + 1
                        ELSE CHOOSE i \in raisers : \A j \in raisers : i <= j
        raised == cu.raised \/ raisers # {}
        \* the branch that handled each entity (0: the combined circuit);
        \* "" for an entity whose record the call left as it was (a unit
        \* it did not get to, the combined circuit when its update raised)
        phases == [e \in 0..NUM_CONSUMERS |->
                     IF cu.raised \/ e > first_raiser THEN ""
                     ELSE IF e = 0 THEN cu.phase
                     ELSE uu[e].phase]
    IN  IF cu.raised
        THEN [raised |-> TRUE, combined |-> combined, consumers |-> consumers,
              last |-> now, time_delta_min |-> time_delta_min,
              combined_limit_factor |-> None, unit_factors |-> None,
              current_combined_limit |-> None, X_managed_capacity |-> None,
              pre_capped_requests |-> None, final_limits |-> None,
              phases |-> phases, results |-> None]
        ELSE
          LET combined_limit_factor == cu.factor[1]
              current_combined_limit ==
                  current_combined_limit_of(cfg, L_combined_actual, combined_limit_factor)
              X_managed_capacity ==
                  RMax(Zero, RSub(current_combined_limit, L_unmanaged_actual))
              new_consumers == [i \in Units |->
                                  IF i <= first_raiser THEN uu[i].state
                                  ELSE consumers[i]]
          IN  IF raised
              THEN [raised |-> TRUE, combined |-> cu.state,
                    consumers |-> new_consumers,
                    last |-> now, time_delta_min |-> time_delta_min,
                    combined_limit_factor |-> <<combined_limit_factor>>,
                    unit_factors |-> None,
                    current_combined_limit |-> <<current_combined_limit>>,
                    X_managed_capacity |-> <<X_managed_capacity>>,
                    pre_capped_requests |-> None, final_limits |-> None,
                    phases |-> phases, results |-> None]
              ELSE
                LET pre_capped_requests ==
                        [i \in Units |->
                           pre_capped_request_of(cfg, L_units_actual[i], uu[i].factor[1])]
                    final_limits ==
                        final_limits_of(X_managed_capacity, pre_capped_requests)
                IN  [raised |-> FALSE, combined |-> cu.state,
                     consumers |-> new_consumers,
                     last |-> now, time_delta_min |-> time_delta_min,
                     combined_limit_factor |-> <<combined_limit_factor>>,
                     unit_factors |-> [i \in Units |-> uu[i].factor[1]],
                     current_combined_limit |-> <<current_combined_limit>>,
                     X_managed_capacity |-> <<X_managed_capacity>>,
                     pre_capped_requests |-> pre_capped_requests,
                     final_limits |-> final_limits,
                     phases |-> phases,
                     results |->
                       [combined_oa_percent |-> Round2(cu.state.oa),
                        current_combined_limit_A |-> Round2(current_combined_limit),
                        available_managed_capacity_A |-> Round2(X_managed_capacity),
                        individual_oa_percents |->
                            [i \in Units |-> Round2(new_consumers[i].oa)],
                        final_limits_A |-> [i \in Units |-> Round2(final_limits[i])],
                        units_pre_capped_demand_A |->
                            [i \in Units |-> Round2(pre_capped_requests[i])]]]

\* ------------------------------------------------------------------------
\* State
\* ------------------------------------------------------------------------
VARIABLES
    config,                \* the config entry data PowerManagement is built from
    _combined,             \* self._combined_oa / _ramp_start / _init_factor / _ramp_dur
    _consumer_oa_states,   \* self._consumer_oa_states, one OA record per unit
    _last_update_time,     \* self._last_update_time
    latest_results,        \* hass.data[DOMAIN]['latest_results'] (None: the empty dict)
    clock,                 \* the wall clock (datetime.now()) at the latest callback
    run,                   \* the latest async_run_controller call: inputs and locals
    phase,                 \* per entity, the branch that handled it in its latest tick
    calls                  \* number of controller callbacks so far

vars == <<config, _combined, _consumer_oa_states, _last_update_time,
          latest_results, clock, run, phase, calls>>

\* ------------------------------------------------------------------------
\* Bounds and inputs
\* ------------------------------------------------------------------------
\* controller callbacks explored
MaxCalls == 3

\* Change of the wall clock between two callbacks, in clock ticks (-1, 0, 2
\* and 5 minutes).  datetime.now() is the naive local time: it is not
\* monotonic (it steps back when the clock is corrected or daylight saving
\* time ends), so a negative step is possible.
Steps == {-MinuteTicks, 0, 2 * MinuteTicks, 5 * MinuteTicks}

F(n) == <<"float", R(n)>>
FQ(n, d) == <<"float", Frac(n, d)>>

\* What a callback reads from hass.states: the state of the combined-load
\* source entity and of the four unit source entities.
Readings ==
    {[combined |-> <<"unavailable">>, units |-> <<F(4), F(4), F(4), F(4)>>],
     [combined |-> F(16), units |-> <<F(4), F(4), F(4), F(4)>>],
     [combined |-> F(16), units |-> <<F(5), F(5), F(5), F(5)>>],
     [combined |-> F(20), units |-> <<F(5), F(5), F(5), F(5)>>],
     [combined |-> FQ(18, 1),
      units |-> <<<<"unavailable">>, FQ(9, 2), F(3), <<"text">>>>]}

Configs == {DefaultConfig}

NoRun ==
    [outcome |-> "none", combined_state |-> None, unit_states |-> None,
     L_combined_actual |-> None, L_units_actual |-> None,
     time_delta_min |-> None, combined_limit_factor |-> None,
     unit_factors |-> None, current_combined_limit |-> None,
     X_managed_capacity |-> None, pre_capped_requests |-> None,
     final_limits |-> None]

\* ------------------------------------------------------------------------
\* async_setup_entry: a fresh PowerManagement, no result published yet
\* ------------------------------------------------------------------------
Init ==
    /\ config \in Configs
    /\ _combined = InitialOAState
    /\ _consumer_oa_states = [i \in Units |-> InitialOAState]
    /\ clock = 0
    /\ _last_update_time = 0
    /\ latest_results = None
    /\ run = NoRun
    /\ phase = [e \in 0..NUM_CONSUMERS |-> "INITIAL"]
    /\ calls = 0

\* unit_load that falls back to the unit's rated load
unit_load_rated(unit_state) ==
    LET load == get_float_state(unit_state)
    IN  IF load # None THEN load[1] ELSE R(DEFAULT_MAX_INDIVIDUAL_LOAD)

\* the load of one unit as the callback passes it on (line 405)
unit_load(unit_state) ==
    LET load == get_float_state(unit_state)
    IN  IF load # None THEN load[1] ELSE Zero

\* published_results that drops the published result when the call raised
published_results_cleared(r, previous) ==
    IF r.raised THEN None ELSE r.results

\* hass.data[DOMAIN]['latest_results'] after the try block of lines 413-422:
\* the assignment of line 415 is skipped when run_distribution raised, the
\* except clause only logs
published_results(r, previous) ==
    IF r.raised THEN previous ELSE r.results

\* One controller callback, step clock ticks of wall-clock change after the
\* previous one, reading combined_state and unit_states from hass.states.
async_run_controller(step, combined_state, unit_states) ==
    LET now == clock + step
        L_combined_actual == get_float_state(combined_state)
        L_units_actual == [i \in Units |-> unit_load(unit_states[i])]
    IN  /\ calls < MaxCalls
        /\ calls' = calls + 1
        /\ clock' = now
        /\ config' = config
        /\ IF L_combined_actual = None
           THEN /\ UNCHANGED <<_combined, _consumer_oa_states, _last_update_time,
                               latest_results, phase>>
                /\ run' = [NoRun EXCEPT !.outcome = "skipped",
                                        !.combined_state = combined_state,
                                        !.unit_states = unit_states]
           ELSE \E r \in {run_distribution(config, _combined, _consumer_oa_states,
                                             _last_update_time, L_combined_actual[1],
                                             L_units_actual, now)} :
                    /\ _combined' = r.combined
                    /\ _consumer_oa_states' = r.consumers
                    /\ _last_update_time' = r.last
                    /\ latest_results' = published_results(r, latest_results)
                    /\ phase' = [e \in 0..NUM_CONSUMERS |->
                                   IF r.phases[e] = "" THEN phase[e]
                                   ELSE r.phases[e]]
                    /\ run' = [outcome |-> IF r.raised THEN "raised" ELSE "ran",
                               combined_state |-> combined_state,
                               unit_states |-> unit_states,
                               L_combined_actual |-> L_combined_actual,
                               L_units_actual |-> L_units_actual,
                               time_delta_min |-> r.time_delta_min,
                               combined_limit_factor |-> r.combined_limit_factor,
                               unit_factors |-> r.unit_factors,
                               current_combined_limit |-> r.current_combined_limit,
                               X_managed_capacity |-> r.X_managed_capacity,
                               pre_capped_requests |-> r.pre_capped_requests,
                               final_limits |-> r.final_limits]

Next ==
    \E step \in Steps, reading \in Readings :
        async_run_controller(step, reading.combined, reading.units)

Spec == Init /\ [][Next]_vars

\* the same controller under a wall clock that never steps back
ForwardSteps == {step \in Steps : step >= 0}

NextForward ==
    \E step \in ForwardSteps, reading \in Readings :
        async_run_controller(step, reading.combined, reading.units)

SpecForward == Init /\ [][NextForward]_vars

\* ------------------------------------------------------------------------
\* The controller at sub-minute elapsed times and with tuning durations the
\* config flow accepts: its tuning step stores any six floats unchecked
\* (config_flow.py lines 96-106), only the two limits must be positive.
\* ------------------------------------------------------------------------
ZeroDurationConfig ==
    [DefaultConfig EXCEPT !.delay_5 = Zero, !.delay_20 = Zero,
                          !.ramp_5 = Zero, !.ramp_20 = Zero,
                          !.recover_fast = Zero, !.recover_slow = Zero]

NegativeDurationConfig ==
    [DefaultConfig EXCEPT !.delay_5 = R(-1), !.delay_20 = R(-1),
                          !.ramp_5 = R(-1), !.ramp_20 = R(-1),
                          !.recover_fast = R(-1), !.recover_slow = R(-1)]

TunedConfigs == {DefaultConfig, ZeroDurationConfig, NegativeDurationConfig}

\* 30 seconds and one minute between two callbacks
FineSteps == {1, MinuteTicks}

FineReadings ==
    {[combined |-> F(17), units |-> <<F(4), F(4), F(4), F(4)>>],
     [combined |-> F(16), units |-> <<F(4), F(5), F(5), F(4)>>],
     [combined |-> F(20), units |-> <<F(5), F(5), F(5), F(5)>>]}

InitTuned ==
    /\ config \in TunedConfigs
    /\ _combined = InitialOAState
    /\ _consumer_oa_states = [i \in Units |-> InitialOAState]
    /\ clock = 0
    /\ _last_update_time = 0
    /\ latest_results = None
    /\ run = NoRun
    /\ phase = [e \in 0..NUM_CONSUMERS |-> "INITIAL"]
    /\ calls = 0

NextFine ==
    \E step \in FineSteps, reading \in FineReadings :
        async_run_controller(step, reading.combined, reading.units)

SpecFine == InitTuned /\ [][NextFine]_vars

\* ------------------------------------------------------------------------
\* Vocabulary of the properties: entity 0 is the combined circuit, entity
\* i in 1..4 is unit i.
\* ------------------------------------------------------------------------
Entities == 0..NUM_CONSUMERS
OA(e) == IF e = 0 THEN _combined ELSE _consumer_oa_states[e]
Limit(e) == IF e = 0 THEN config.max_combined_load ELSE config.max_individual_load
\* of the latest callback, when it called run_distribution
Load(e) == IF e = 0 THEN run.L_combined_actual[1] ELSE run.L_units_actual[e]
Factor(e) == IF e = 0 THEN run.combined_limit_factor[1] ELSE run.unit_factors[e]
Ran == run.outcome = "ran"
Overloaded(e) == RLt(Limit(e), Load(e))
IsFloat(state) == state # None /\ state[1] = "float"
DemandTotal == RSum(run.pre_capped_requests)
Capacity == run.X_managed_capacity[1]
PositiveDurations ==
    \A d \in {config.delay_5, config.delay_20, config.ramp_5, config.ramp_20,
              config.recover_fast, config.recover_slow} : RLt(Zero, d)

\* ------------------------------------------------------------------------
\* C1: after every tick, each of the five OA entities has
\* 0 <= oa_percent <= 100, for any loads and any elapsed time per tick.
\* Violated: time_delta_min is a difference of two datetime.now() readings
\* and is negative when the wall clock stepped back; the recovery branch
\* only clamps from above and the consumption branch only from below.
\* ------------------------------------------------------------------------
C1_OaWithinBounds ==
    \A e \in Entities : RLe(Zero, OA(e).oa) /\ RLe(OA(e).oa, Hundred)

\* ------------------------------------------------------------------------
\* C2: in a tick with managed_capacity < demand_total and demand_total > 0,
\* every unit gets final[i] = pre_capped[i] * managed_capacity / demand_total
\* and the four final limits sum to managed_capacity.
\* ------------------------------------------------------------------------
C2_ProportionalExact ==
    (Ran /\ RLt(Capacity, DemandTotal) /\ RLt(Zero, DemandTotal)) =>
        /\ \A i \in Units :
              RMul(run.final_limits[i], DemandTotal)
                  = RMul(run.pre_capped_requests[i], Capacity)
        /\ RSum(run.final_limits) = Capacity

\* a scarce tick in which the units' shares differ
C2_Witness ==
    /\ Ran /\ RLt(Capacity, DemandTotal) /\ RLt(Zero, Capacity)
    /\ \E i, j \in Units : /\ run.final_limits[i] # run.final_limits[j]
                            /\ RLt(Zero, run.final_limits[i])
                            /\ RLt(Zero, run.final_limits[j])

\* ------------------------------------------------------------------------
\* C3: in a tick with managed_capacity >= demand_total, final[i] equals
\* pre_capped[i] for all four units.
\* ------------------------------------------------------------------------
C3_PassThrough ==
    (Ran /\ RLe(DemandTotal, Capacity)) =>
        \A i \in Units : run.final_limits[i] = run.pre_capped_requests[i]

\* capacity strictly above a positive demand
C3_Witness ==
    Ran /\ RLt(DemandTotal, Capacity) /\ RLt(Zero, DemandTotal)

\* ------------------------------------------------------------------------
\* C4 as claimed: a tick with zero elapsed time leaves oa_percent,
\* ramp_start and init_factor of every entity unchanged, from any reachable
\* state and for any readings.  Violated: the recovery branch clears
\* ramp_start whatever the elapsed time, and an overloaded entity with
\* oa_percent = 0 and no ramp begins one.
\* ------------------------------------------------------------------------
C4_ZeroDtUnchanged ==
    [][(Ran' /\ run'.time_delta_min = Zero) =>
          \A e \in Entities :
              /\ OA(e)'.oa = OA(e).oa
              /\ OA(e)'.ramp_start = OA(e).ramp_start
              /\ OA(e)'.init_factor = OA(e).init_factor]_vars

\* ------------------------------------------------------------------------
\* C4 as amended: a tick with zero elapsed time adds nothing to and takes
\* nothing from any oa_percent (it only re-applies the clamp of its branch)
\* and keeps init_factor and ramp_start of an entity that is overloaded
\* with a ramp in progress; but it clears ramp_start of an entity at or
\* under its limit or overloaded with oa_percent > 0, and it begins a ramp
\* (ramp_start = now, init_factor = overload ratio) for an overloaded
\* entity with oa_percent = 0 and no ramp.
\* ------------------------------------------------------------------------
C4_ZeroDtAmended ==
    [][(Ran' /\ run'.time_delta_min = Zero) =>
          \A e \in Entities :
              IF ~Overloaded(e)'
              THEN /\ OA(e)'.oa = RMin(Hundred, OA(e).oa)
                   /\ OA(e)'.ramp_start = None
                   /\ OA(e)'.init_factor = OA(e).init_factor
              ELSE /\ OA(e)'.oa = RMax(Zero, OA(e).oa)
                   /\ IF RLt(Zero, OA(e)'.oa)
                      THEN /\ OA(e)'.ramp_start = None
                           /\ OA(e)'.init_factor = OA(e).init_factor
                      ELSE IF OA(e).ramp_start = None
                      THEN /\ OA(e)'.ramp_start = <<clock'>>
                           /\ OA(e)'.init_factor = RDiv(Load(e)', Limit(e))
                      ELSE /\ OA(e)'.ramp_start = OA(e).ramp_start
                           /\ OA(e)'.init_factor = OA(e).init_factor]_vars

\* a zero-elapsed tick found an entity with exhausted OA at or under its
\* limit (its ramp is cleared) while another one is ramping
C4_Witness ==
    /\ Ran /\ run.time_delta_min = Zero
    /\ \E e \in Entities :
          ~Overloaded(e) /\ OA(e).oa = Zero /\ OA(e).ramp_start = None
    /\ \E e \in Entities : Overloaded(e) /\ OA(e).ramp_start # None

C6_SustainedOverload ==
    [][(Ran' /\ PositiveDurations /\ RLt(Zero, run'.time_delta_min)) =>
          \A e \in Entities :
              Overloaded(e)' =>
                  LET slowest == RDiv(Hundred, RMax(config.delay_5, config.delay_20))
                  IN  /\ \/ OA(e)'.oa = Zero
                         \/ RLe(OA(e)'.oa,
                                RSub(OA(e).oa, RMul(slowest, run'.time_delta_min)))
                      /\ OA(e)'.oa = Zero =>
                            /\ OA(e)'.ramp_start # None
                            /\ OA(e).ramp_start = None =>
                                   OA(e)'.ramp_start = <<clock'>>
                            /\ RLe(OA(e)'.ramp_dur,
                                   Minutes(clock' - OA(e)'.ramp_start[1])) =>
                                   Factor(e)' = One]_vars

\* an overloaded entity whose ramp has run its full duration
C6_Witness ==
    /\ Ran /\ PositiveDurations /\ RLt(Zero, run.time_delta_min)
    /\ \E e \in Entities :
          /\ Overloaded(e) /\ OA(e).oa = Zero /\ OA(e).ramp_start # None
          /\ RLe(OA(e).ramp_dur, Minutes(clock - OA(e).ramp_start[1]))
          /\ Factor(e) = One

\* ------------------------------------------------------------------------
\* C7: while an entity's load stays at or under its reference limit its
\* oa_percent never decreases from one tick to the next, and a tick whose
\* elapsed time reaches recovery_minutes leaves it at 100.  Violated: with
\* a negative time_delta_min (C1) the recovery branch lowers oa_percent.
\* ------------------------------------------------------------------------
C7_RecoveryMonotone ==
    [][Ran' =>
          \A e \in Entities :
              ~Overloaded(e)' =>
                  /\ RLe(OA(e).oa, OA(e)'.oa)
                  /\ RLe(_calculate_recovery_time(config,
                            RMax(Zero, RMin(One, RDiv(Load(e)', Limit(e))))),
                         run'.time_delta_min) => OA(e)'.oa = Hundred]_vars

\* ------------------------------------------------------------------------
\* C8: while an entity's load stays above its reference limit its
\* oa_percent never increases from one tick to the next.  Violated: with a
\* negative time_delta_min (C1) the consumption branch raises oa_percent.
\* ------------------------------------------------------------------------
C8_OverloadMonotone ==
    [][Ran' =>
          \A e \in Entities :
              Overloaded(e)' => RLe(OA(e)'.oa, OA(e).oa)]_vars

\* ------------------------------------------------------------------------
\* C9: a callback that finds the combined load reading unavailable changes
\* no OA state, does not advance the last-processed-tick timestamp and
\* leaves the published result as it was.
\* ------------------------------------------------------------------------
C9_SkipLeavesState ==
    [][(calls' = calls + 1 /\ ~IsFloat(run'.combined_state)) =>
          UNCHANGED <<_combined, _consumer_oa_states, _last_update_time,
                      latest_results>>]_vars

\* a skipped callback after a result was published, the clock having moved on
C9_Witness ==
    /\ run.outcome = "skipped" /\ ~IsFloat(run.combined_state)
    /\ latest_results # None
    /\ clock > _last_update_time

\* ------------------------------------------------------------------------
\* C10: when the combined reading is available the tick runs, with the load
\* of every unit whose reading is unavailable taken as 0.0 and the other
\* units' readings used unchanged.
\* ------------------------------------------------------------------------
C10_UnitUnavailableIsZero ==
    [][(calls' = calls + 1 /\ IsFloat(run'.combined_state)) =>
          LET loads == [i \in Units |->
                          IF IsFloat(run'.unit_states[i])
                          THEN run'.unit_states[i][2] ELSE Zero]
          IN  \E r \in {run_distribution(config, _combined, _consumer_oa_states,
                                         _last_update_time, run'.combined_state[2],
                                         loads, clock')} :
                  /\ run'.outcome \in {"ran", "raised"}
                  /\ run'.L_units_actual = loads
                  /\ _last_update_time' = clock'
                  /\ _combined' = r.combined
                  /\ _consumer_oa_states' = r.consumers
                  /\ ~r.raised => latest_results' = r.results]_vars

\* a tick that ran with one unit unavailable (0.0) and another one read as is
C10_Witness ==
    /\ Ran
    /\ \E i, j \in Units :
          /\ ~IsFloat(run.unit_states[i]) /\ run.L_units_actual[i] = Zero
          /\ IsFloat(run.unit_states[j])
          /\ run.L_units_actual[j] = run.unit_states[j][2]
          /\ RLt(Zero, run.L_units_actual[j])
          /\ RLt(Zero, run.final_limits[j])

\* ------------------------------------------------------------------------
\* C11: run_distribution never raises, for any numeric readings and any
\* numeric configuration, zero or negative tuning durations included.
\* Violated: a ramp that begins with a ramp duration of 0 divides the
\* elapsed time by it (line 158, ZeroDivisionError); only the delay and the
\* recovery time are guarded.
\* ------------------------------------------------------------------------
C11_NeverRaises ==
    run.outcome # "raised"

\* ------------------------------------------------------------------------
\* C12 as claimed: default configuration, fresh engine, first tick with
\* combined_actual = 17, unit_actual = [4,4,4,4] and one minute elapsed: the
\* consumption delay is about 9.0 minutes, the combined oa_percent decays by
\* about 11.1 to about 88.9 and the combined factor is 1.0625.  "About v"
\* is read as v to the last decimal place quoted (within 0.05).  Violated:
\* the interpolation of the delay gives 28/3 = 9.33 minutes.
\* ------------------------------------------------------------------------
About(x, v, tol) == RLe(RSub(v, tol), x) /\ RLe(x, RAdd(v, tol))

ScenarioTick ==
    /\ calls = 1 /\ Ran /\ config = DefaultConfig
    /\ Load(0) = R(17) /\ \A i \in Units : Load(i) = R(4)
    /\ run.time_delta_min = One

ScenarioDelay == _calculate_oa_timing(config, RDiv(Load(0), Limit(0))).T_delay

C12_ScenarioNumbers ==
    ScenarioTick =>
        /\ About(ScenarioDelay, Frac(90, 10), Frac(5, 100))
        /\ About(RSub(Hundred, OA(0).oa), Frac(111, 10), Frac(5, 100))
        /\ About(OA(0).oa, Frac(889, 10), Frac(5, 100))
        /\ Factor(0) = Frac(10625, 10000)

\* ------------------------------------------------------------------------
\* C12 as amended: in that tick the consumption delay is 28/3 (about 9.33)
\* minutes, the combined oa_percent decays from 100 by 75/7 (about 10.71) to
\* 625/7 (about 89.29, the published combined_oa_percent) and the combined
\* factor is 1.0625.
\* ------------------------------------------------------------------------
C12_ScenarioAmended ==
    ScenarioTick =>
        /\ ScenarioDelay = Frac(28, 3)
        /\ RSub(Hundred, OA(0).oa) = Frac(75, 7)
        /\ OA(0).oa = Frac(625, 7)
        /\ latest_results.combined_oa_percent = Frac(8929, 100)
        /\ Factor(0) = Frac(10625, 10000)

\* the scenario tick happened: the combined circuit is in its delay phase
C12_Witness ==
    /\ ScenarioTick
    /\ phase[0] = "ACCEPTING"
    /\ RLt(Zero, OA(0).oa) /\ RLt(OA(0).oa, Hundred)

\* ------------------------------------------------------------------------
\* C13 as claimed: in every reachable state ramp_start of an entity is set
\* only while its ramp-down is in progress and not yet complete.  Violated:
\* nothing clears ramp_start when the ramp completes; a LIMITED entity keeps
\* it (the progress of every later tick is computed from it).
\* ------------------------------------------------------------------------
C13_RampStartOnlyWhileRamping ==
    \A e \in Entities :
        OA(e).ramp_start # None => phase[e] = "RAMPING"

\* ------------------------------------------------------------------------
\* C13 as amended: ramp_start of an entity is set exactly while the entity
\* is ramping or limited, with oa_percent = 0: it is set when the ramp-down
\* begins and stays set after the ramp has completed, until a tick finds
\* the load at or under the reference limit or oa_percent above 0.
\* ------------------------------------------------------------------------
C13_RampStartWhileLimiting ==
    \A e \in Entities :
        /\ OA(e).ramp_start # None <=> phase[e] \in {"RAMPING", "LIMITED"}
        /\ OA(e).ramp_start # None =>
               /\ OA(e).oa = Zero
               /\ OA(e).ramp_dur # None
               /\ RLt(Zero, OA(e).ramp_dur) =>
                      (phase[e] = "LIMITED" <=>
                          RLe(OA(e).ramp_dur,
                              Minutes(_last_update_time - OA(e).ramp_start[1])))

\* an entity whose ramp has completed, and one whose ramp is in progress
C13_Witness ==
    /\ \E e \in Entities :
          /\ phase[e] = "LIMITED" /\ OA(e).ramp_start # None
          /\ RLe(OA(e).ramp_dur, Minutes(_last_update_time - OA(e).ramp_start[1]))
    /\ \E e \in Entities :
          /\ phase[e] = "RAMPING" /\ OA(e).ramp_start # None

\* ------------------------------------------------------------------------
\* C14: in a single tick, whatever its elapsed time, an entity at or under
\* its limit whose recovery time is <= 0 gets oa_percent = 100, and an
\* overloaded entity whose delay is <= 0 gets oa_percent = 0.  Violated:
\* the fallback for a duration <= 0 is a rate of 100 per minute, so a tick
\* 30 seconds after the previous one moves oa_percent by 50 only.
\* ------------------------------------------------------------------------
C14_DegenerateInstant ==
    [][Ran' =>
          \A e \in Entities :
              LET ratio == RDiv(Load(e)', Limit(e))
              IN  IF Overloaded(e)'
                  THEN RLe(_calculate_oa_timing(config, ratio).T_delay, Zero)
                           => OA(e)'.oa = Zero
                  ELSE RLe(_calculate_recovery_time(config,
                               RMax(Zero, RMin(One, ratio))), Zero)
                           => OA(e)'.oa = Hundred]_vars

\* ------------------------------------------------------------------------
\* C15: the combined limit factor is above 1.0 only while the combined
\* circuit is ACCEPTING (oa_percent > 0); whenever it is ramping or limited
\* current_combined_limit is max_combined_load * combined_factor.
\* Violated: a ramp returns factors from init_factor down to 1.0, all above
\* 1.0 until it completes, so line 200 keeps the limit at the actual load
\* for the whole ramp.
\* ------------------------------------------------------------------------
C15_CombinedLimitWhileRamping ==
    Ran =>
        /\ RLt(One, Factor(0)) =>
               (phase[0] = "ACCEPTING" /\ RLt(Zero, OA(0).oa))
        /\ phase[0] \in {"RAMPING", "LIMITED"} =>
               run.current_combined_limit[1]
                   = RMul(config.max_combined_load, Factor(0))

\* ------------------------------------------------------------------------
\* C16: once an entity is LIMITED, every later tick with its load still
\* above the reference limit leaves it LIMITED with oa_percent = 0 and
\* limit factor exactly 1.0; it leaves LIMITED only in a tick with the load
\* at or under the limit, which is RECOVERING.  Violated: with a negative
\* time_delta_min (C1) the decay recharges oa_percent of a LIMITED entity,
\* which is ACCEPTING again with a factor above 1.0.
\* ------------------------------------------------------------------------
C16_LimitedStays ==
    [][Ran' =>
          \A e \in Entities :
              phase[e] = "LIMITED" =>
                  IF Overloaded(e)'
                  THEN /\ phase'[e] = "LIMITED"
                       /\ OA(e)'.oa = Zero
                       /\ Factor(e)' = One
                  ELSE phase'[e] = "RECOVERING"]_vars

\* ------------------------------------------------------------------------
\* C17: a tick that finds an entity's load at or under its (positive)
\* reference limit clears its ramp and returns the limit factor 1.0,
\* whatever the entity's state was; with combined_actual = X and every
\* unit at Y the tick gives current_combined_limit = X and final[i] = Y.
\* ------------------------------------------------------------------------
C17_AtOrUnderLimit ==
    [][Ran' =>
          /\ \A e \in Entities :
                (~Overloaded(e)' /\ RLt(Zero, Limit(e))) =>
                    /\ OA(e)'.ramp_start = None
                    /\ Factor(e)' = One
                    /\ phase'[e] = "RECOVERING"
          /\ (Load(0)' = config.max_combined_load
                 /\ \A i \in Units : Load(i)' = config.max_individual_load) =>
                    /\ run'.current_combined_limit = <<config.max_combined_load>>
                    /\ \A i \in Units :
                          run'.final_limits[i] = config.max_individual_load]_vars

\* a tick with every load at its limit that found exhausted entities (they
\* were ramping or limited): their ramps are cleared, the limits are X and Y
C17_Witness ==
    /\ Ran
    /\ Load(0) = config.max_combined_load
    /\ \A i \in Units : Load(i) = config.max_individual_load
    /\ \E e \in Entities :
          OA(e).oa = Zero /\ OA(e).ramp_start = None /\ Factor(e) = One
    /\ \A i \in Units : run.final_limits[i] = config.max_individual_load

\* ------------------------------------------------------------------------
\* C18 as claimed: an entity's first RAMPING tick (the tick that sets
\* ramp_start) is immediately preceded by a tick in which it was ACCEPTING,
\* never by a RECOVERING tick or the initial state.  Violated: a tick whose
\* elapsed time uses up all the remaining oa_percent goes on to begin the
\* ramp, whatever the entity was before.
\* ------------------------------------------------------------------------
RampBegins(e) == OA(e).ramp_start = None /\ OA(e)'.ramp_start # None

C18_RampingAfterAccepting ==
    [][\A e \in Entities : RampBegins(e) => phase[e] = "ACCEPTING"]_vars

\* ------------------------------------------------------------------------
\* C18 as amended: an entity's first RAMPING tick is immediately preceded
\* by a tick in which it was ACCEPTING or RECOVERING, or by the initial
\* state, never by a RAMPING or LIMITED tick; it is a tick that finds the
\* entity overloaded and whose elapsed time uses up all the oa_percent that
\* was left (oa_percent <= 100/delay * dt).
\* ------------------------------------------------------------------------
C18_RampingAfterExhaustion ==
    [][\A e \in Entities :
          RampBegins(e) =>
              /\ phase[e] \in {"ACCEPTING", "RECOVERING", "INITIAL"}
              /\ phase'[e] = "RAMPING"
              /\ Overloaded(e)'
              /\ LET T_delay == _calculate_oa_timing(config,
                                     RDiv(Load(e)', Limit(e))).T_delay
                      rate == IF RLt(Zero, T_delay)
                              THEN RDiv(Hundred, T_delay) ELSE Hundred
                  IN  RLe(OA(e).oa, RMul(rate, run'.time_delta_min))]_vars

\* the first tick of an engine takes an entity from the initial state
\* straight to RAMPING
C18_Witness ==
    calls = 1 /\ \E e \in Entities : phase[e] = "RAMPING" /\ OA(e).ramp_start = <<clock>>

\* ------------------------------------------------------------------------
\* C19: when run_distribution raises in a callback the exception is caught
\* in async_run_controller (the callback returns normally and is called
\* again at the next period) and the published result stays as it was.
\* ------------------------------------------------------------------------
C19_RaiseKeepsResult ==
    [][run'.outcome = "raised" =>
          /\ latest_results' = latest_results
          /\ calls' = calls + 1
          /\ _last_update_time' = clock']_vars

\* a callback that raised after a result had been published by an earlier one
C19_Witness ==
    /\ run.outcome = "raised"
    /\ latest_results # None
    /\ calls >= 2

\* ------------------------------------------------------------------------
\* C20: in every tick each unit's pre-capped request is at most the hard
\* cap Y, in every OA state of the unit, and so is its final limit.
\* Violated: an ACCEPTING unit's cap is Y * overload_ratio, which is its
\* requested load, so the request passes uncapped (lines 226-229).
\* ------------------------------------------------------------------------
C20_PreCappedWithinHardCap ==
    Ran =>
        \A i \in Units :
            /\ RLe(run.pre_capped_requests[i], config.max_individual_load)
            /\ RLe(run.final_limits[i], config.max_individual_load)

\* ------------------------------------------------------------------------
\* C21: after every tick, for each of the five OA entities, ramp_start
\* being set implies oa_percent = 0; an entity with oa_percent > 0 never
\* has an active ramp.
\* ------------------------------------------------------------------------
C21_RampImpliesExhausted ==
    \A e \in Entities :
        /\ OA(e).ramp_start # None => OA(e).oa = Zero
        /\ RLt(Zero, OA(e).oa) => OA(e).ramp_start = None

\* after a tick with positive elapsed time one entity has an active ramp
\* (oa_percent 0) and another one has oa_percent above 0 and no ramp
C21_Witness ==
    /\ Ran /\ RLt(Zero, run.time_delta_min)
    /\ \E e \in Entities : OA(e).ramp_start # None /\ OA(e).oa = Zero
    /\ \E e \in Entities :
          /\ RLt(Zero, OA(e).oa) /\ RLt(OA(e).oa, Hundred)
          /\ OA(e).ramp_start = None

\* ------------------------------------------------------------------------
\* C22: for non-negative load readings every tick's result has
\* 0 <= final[i] <= pre_capped[i] <= unit_actual[i] for every unit and
\* sum(final) <= managed_capacity; and whenever the combined limit factor
\* is 1.0, unmanaged_actual + sum(final) <= max(max_combined_load,
\* unmanaged_actual).
\* ------------------------------------------------------------------------
Unmanaged == RMax(Zero, RSub(Load(0), RSum(run.L_units_actual)))

NonNegativeLoads ==
    RLe(Zero, Load(0)) /\ \A i \in Units : RLe(Zero, Load(i))

C22_FinalWithinBounds ==
    (Ran /\ NonNegativeLoads) =>
        /\ \A i \in Units :
              /\ RLe(Zero, run.final_limits[i])
              /\ RLe(run.final_limits[i], run.pre_capped_requests[i])
              /\ RLe(run.pre_capped_requests[i], Load(i))
        /\ RLe(RSum(run.final_limits), Capacity)
        /\ Factor(0) = One =>
               RLe(RAdd(Unmanaged, RSum(run.final_limits)),
                   RMax(config.max_combined_load, Unmanaged))

\* a tick with the combined factor at 1.0, unmanaged load on the circuit and
\* a unit held strictly below its OA cap, which is strictly below its load
C22_Witness ==
    /\ Ran /\ NonNegativeLoads
    /\ Factor(0) = One /\ RLt(Zero, Unmanaged)
    /\ \E i \in Units :
          /\ RLt(Zero, run.final_limits[i])
          /\ RLt(run.final_limits[i], run.pre_capped_requests[i])
          /\ RLt(run.pre_capped_requests[i], Load(i))

====
